---- MODULE Spec2Model ----
(***************************************************************************)
(* The Drive proxy servers of this repository: the four server variants    *)
(* (service account from the environment, OAuth consent flow, service      *)
(* account key file with folder resolution, service account with a         *)
(* temporary upload file), their /upload, /grant-access, /oauth2callback   *)
(* and /debug/parent handlers, the folder resolver and the credential      *)
(* store (oauth2Client.credentials).                                       *)
(*                                                                         *)
(* A handler is cut at the awaits that wait for the provider: one action   *)
(* runs the code from one provider answer to the next provider call (or to *)
(* the response).  `await ensureAuthed(res)` awaits a promise that is      *)
(* already settled, so its continuation runs before any provider answer is *)
(* delivered: the check and the code up to the first provider call are one *)
(* action.  Request handlers share only the credential store, which only   *)
(* /oauth2callback writes: the model follows one request handler and one   *)
(* callback at a time, interleaved in every order.                         *)
(***************************************************************************)
EXTENDS Integers, Sequences, FiniteSets, TLC

\* ------------------------------------------------------------------ bounds

\* Provider object ids 1..NumIds (0 stands for "no id" / undefined).
NumIds == 2
\* Distinct access tokens the consent exchange can return.
NumTokens == 1
\* Temporary files left behind that are counted.
MaxOrphans == 2

Ids == 1..NumIds
\* The id the provider gives the file created by files.create.
NewFileId == NumIds + 1

\* ------------------------------------------------------------------ variants

\* index.js 1-153, index.js 155-453, unnamed/part_000, unnamed/part_001
Variants == {"sa_env", "oauth", "sa_file", "sa_disk"}

FolderMime == "application/vnd.google-apps.folder"
ShortcutMime == "application/vnd.google-apps.shortcut"
OtherMime == "text/plain"

\* A provider object as files.get reports it: mimeType and
\* shortcutDetails.targetId (0: no shortcutDetails).  "absent" is an id
\* files.get rejects (not found, or no permission).
Absent == [mimeType |-> "absent", targetId |-> 0]
Nodes ==
    {Absent, [mimeType |-> FolderMime, targetId |-> 0],
     [mimeType |-> OtherMime, targetId |-> 0]}
    \cup {[mimeType |-> ShortcutMime, targetId |-> t] : t \in Ids}

\* oauth2Client.credentials: {} before any setCredentials.
NoCreds == [access_token |-> 0, refresh_token |-> 0]
\* What getToken can return: refresh_token 0 is a pair without refresh_token.
TokenPairs ==
    {[access_token |-> a, refresh_token |-> a * r] : a \in 1..NumTokens, r \in {0, 1}}

ProviderErrors == {"invalid_grant"}

VARIABLES
    variant,      \* which server is running
    folderId,     \* DRIVE_FOLDER_ID / GOOGLE_DRIVE_FOLDER_ID (0: unset)
    drive,        \* the provider's metadata, by id
    credentials,  \* oauth2Client.credentials
    req,          \* the request handler in flight
    cb,           \* the /oauth2callback handler in flight
    history,      \* by input id: the first and the latest result of resolveParentFolder
    orphans       \* temporary upload files of finished requests still on disk

vars == <<variant, folderId, drive, credentials, req, cb, history, orphans>>

\* ------------------------------------------------------------------ values

NoLink == <<>>
\* the webViewLink the provider reports for a file
WebViewLink(id) == <<"https://drive.google.com/file/d/", id, "/view?usp=drivesdk">>
\* `https://drive.google.com/file/d/${id}/view`
BuildViewUrl(id) == <<"https://drive.google.com/file/d/", id, "/view">>

Resp(status, error, id, name, link) ==
    [status |-> status, error |-> error, id |-> id, name |-> name, link |-> link]
NoResp == Resp(0, "", 0, "", NoLink)
NoResult == [next |-> "none", id |-> 0, err |-> ""]
NoCreated == [ok |-> FALSE, id |-> 0, link |-> NoLink]

IdleReq ==
    [kind |-> "none", pc |-> "idle",
     file |-> FALSE, desiredFileName |-> "", fileId |-> 0, email |-> "",
     input |-> 0, authed |-> TRUE, calls |-> <<>>, bare |-> FALSE, target |-> 0,
     resolved |-> NoResult, created |-> NoCreated, fetched |-> NoCreated,
     tmp |-> FALSE, unlinkFails |-> 0, authorized |-> FALSE,
     resp |-> NoResp]

\* before: the store when the request arrived (kept for a failed exchange)
IdleCb == [pc |-> "idle", before |-> NoCreds, ok |-> FALSE,
           tokens |-> NoCreds, err |-> "", status |-> 0, body |-> ""]

\* ------------------------------------------------------------------ credential store

\* index.js 253
hasRefreshToken(creds) == creds.refresh_token # 0

\* isAuthorized(): the service-account variants hold a static secret for the
\* whole process lifetime (they fail at startup without it).
isAuthorized(v, creds) == IF v = "oauth" THEN hasRefreshToken(creds) ELSE TRUE

\* requestBody.role of every permissions.create: index.js 102, 374,
\* part_000 166, part_001 86
PermissionRole == "reader"

\* A provider call as the handler issues it.
Call(op, fileId, parent, name, email, notify) ==
    [op |-> op, fileId |-> fileId, parent |-> parent, name |-> name,
     email |-> email, notify |-> notify,
     role |-> IF op = "permissions.create" THEN PermissionRole ELSE ""]

\* ------------------------------------------------------------------ folder resolver

NotFoundMsg == "File not found or no permission for folder ID"
NotAccessibleMsg == "Shortcut target not accessible for ID"
TargetNotFolderMsg == "Shortcut target is not a folder"
NotFolderMsg == "Provided ID is not a folder"
\* the provider's own error of a rejected files.get, passed through
ProviderGetMsg == "File not found"

Throw(msg) == [next |-> "throw", id |-> 0, err |-> msg]
Return(id) == [next |-> "return", id |-> id, err |-> ""]
Fetch(id) == [next |-> "fetch", id |-> id, err |-> ""]

hasResolver(v) == v \in {"oauth", "sa_file"}

AfterMeta_AlwaysFollow(v, meta, id) ==
    IF meta.mimeType = "absent"
    THEN Throw(IF v = "sa_file" THEN NotFoundMsg ELSE ProviderGetMsg)
    ELSE Fetch(IF meta.targetId # 0 THEN meta.targetId ELSE id)

\* resolveParentFolder from the answer of the first files.get on:
\* index.js 302-323, part_000 52-87
AfterMeta(v, meta, id) ==
    IF meta.mimeType = "absent"
    THEN Throw(IF v = "sa_file" THEN NotFoundMsg ELSE ProviderGetMsg)
    ELSE IF meta.targetId # 0 THEN Fetch(meta.targetId)
    ELSE IF meta.mimeType # FolderMime THEN Throw(NotFolderMsg)
    ELSE Return(id)

AfterTarget_AcceptShortcut(v, target, targetId) ==
    IF target.mimeType = "absent"
    THEN Throw(IF v = "sa_file" THEN NotAccessibleMsg ELSE ProviderGetMsg)
    ELSE IF target.mimeType \notin {FolderMime, ShortcutMime}
    THEN Throw(IF v = "sa_file" THEN NotAccessibleMsg ELSE TargetNotFolderMsg)
    ELSE Return(targetId)

AfterTarget_NoKindCheck(v, target, targetId) ==
    IF target.mimeType = "absent"
    THEN Throw(IF v = "sa_file" THEN NotAccessibleMsg ELSE ProviderGetMsg)
    ELSE Return(targetId)

\* resolveParentFolder from the answer of the second files.get on:
\* index.js 310-318, part_000 67-80 (whose catch replaces every error thrown
\* in the try, its own "not a folder" included)
AfterTarget(v, target, targetId) ==
    IF target.mimeType = "absent"
    THEN Throw(IF v = "sa_file" THEN NotAccessibleMsg ELSE ProviderGetMsg)
    ELSE IF target.mimeType # FolderMime
    THEN Throw(IF v = "sa_file" THEN NotAccessibleMsg ELSE TargetNotFolderMsg)
    ELSE Return(targetId)

\* The failure kinds of section 7 of the specification, by message.
ErrorKind(msg) ==
    IF msg \in {TargetNotFolderMsg, NotFolderMsg} THEN "InvalidTarget"
    ELSE IF msg \in {NotFoundMsg, NotAccessibleMsg, ProviderGetMsg} THEN "NotFound"
    ELSE "ProviderError"

\* ------------------------------------------------------------------ init

\* multer({dest}) has written the payload to uploads/ before the handler runs
usesTempFile(v) == v = "sa_disk"

Init ==
    /\ variant \in Variants
    /\ folderId \in (IF variant \in {"sa_env", "oauth"} THEN {0, 1} ELSE {1})
    /\ drive \in [Ids -> Nodes]
    /\ credentials \in (IF variant = "oauth" THEN {NoCreds} \cup TokenPairs ELSE {NoCreds})
    /\ req = IdleReq
    /\ cb = IdleCb
    /\ history = [i \in Ids |-> <<>>]
    /\ orphans = 0

\* ------------------------------------------------------------------ request handlers

OriginalName == "upload.bin"

ensureAuthed_Skip(v, creds) == TRUE

\* index.js 255-261: the check every OAuth handler starts with; the other
\* variants have no such check.
ensureAuthed(v, creds) == IF v = "oauth" THEN hasRefreshToken(creds) ELSE TRUE

GrantInvalid_Both(fileId, email) == fileId = 0 /\ email = ""

\* index.js 96, 369, part_000 159, part_001 80: `!fileId || !email` rejects
GrantInvalid(fileId, email) == fileId = 0 \/ email = ""

\* req.body.desiredFileName || req.file.originalname
FileName(r) == IF r.desiredFileName # "" THEN r.desiredFileName ELSE OriginalName

Min(a, b) == IF a < b THEN a ELSE b

\* A new request replaces the finished one in `req`; a temporary file the
\* finished request left on disk stays there.
Accept ==
    /\ req.pc \in {"idle", "done"}
    /\ orphans' = IF req.tmp THEN Min(orphans + 1, MaxOrphans) ELSE orphans

Respond(r, status, error) ==
    [r EXCEPT !.pc = "done", !.resp = Resp(status, error, 0, "", NoLink)]

\* The handler issues a provider call and waits for its answer; bare records
\* that a call of this request was issued while isAuthorized() was false.
Issue(r, pc, call) ==
    [r EXCEPT !.pc = pc, !.calls = Append(@, call),
              !.bare = @ \/ ~isAuthorized(variant, credentials)]

IssueCreate_ConfiguredParent(r, parent) ==
    Issue(r, "create", Call("files.create", 0, folderId, FileName(r), "", "unset"))

\* drive.files.create({requestBody: {name, parents: [parent]}, ...}):
\* index.js 72-76, 337-342, part_000 120-125, part_001 45-49
IssueCreate(r, parent) ==
    Issue(r, "create", Call("files.create", 0, parent, FileName(r), "", "unset"))

ViewLink_NoFallback(link, id) == link

\* webViewLink || `https://drive.google.com/file/d/${id}/view`:
\* index.js 83, 354, part_000 139-141, part_001 57-58
ViewLink(link, id) == IF link # NoLink THEN link ELSE BuildViewUrl(id)

\* fs.unlinkSync(req.file.path): removed, or it throws and the file stays
\* (unlinkFails counts the calls of this request that threw)
Unlinked(r, removed) ==
    [r EXCEPT !.tmp = @ /\ ~removed,
              !.unlinkFails = IF removed THEN @ ELSE @ + 1]

\* POST /upload up to its first provider call:
\* index.js 52-76, index.js 327-334 and 302, part_000 92-105 and 54, part_001 28-49
UploadStart(file, name) ==
    /\ Accept
    /\ LET r == [IdleReq EXCEPT !.kind = "upload", !.file = file,
                                !.desiredFileName = IF file THEN name ELSE "",
                                !.authed = isAuthorized(variant, credentials),
                                !.tmp = file /\ usesTempFile(variant),
                                !.input = IF hasResolver(variant) THEN folderId ELSE 0]
       IN req' =
            IF ~ensureAuthed(variant, credentials)
            THEN Respond(r, 401, "Not authorized. Visit /auth to grant access.")
            ELSE IF ~file THEN Respond(r, 400, "No file uploaded.")
            ELSE IF hasResolver(variant)
            THEN IF folderId = 0 THEN Respond(r, 500, "Missing DRIVE_FOLDER_ID")
                 ELSE Issue(r, "resolve_meta",
                            Call("files.get", folderId, 0, "", "", "unset"))
            ELSE IssueCreate(r, folderId)
    /\ UNCHANGED <<variant, folderId, drive, credentials, cb, history>>

\* GET /debug/parent/:id up to its first provider call: part_000 192-194, 54
DebugParentStart(id) ==
    /\ variant = "sa_file"
    /\ Accept
    /\ req' = Issue([IdleReq EXCEPT !.kind = "debug", !.input = id],
                    "resolve_meta", Call("files.get", id, 0, "", "", "unset"))
    /\ UNCHANGED <<variant, folderId, drive, credentials, cb, history>>

Remember(h, id, result) ==
    [h EXCEPT ![id] = IF @ = <<>> THEN <<result>> ELSE <<@[1], result>>]

Resolved_Upload400(r, result) ==
    LET q == [r EXCEPT !.resolved = result]
    IN IF result.next = "throw" THEN Respond(q, 400, result.err)
       ELSE IF r.kind = "upload" THEN IssueCreate(q, result.id)
       ELSE [q EXCEPT !.pc = "done", !.resp = Resp(200, "", result.id, "", NoLink)]

\* The caller of resolveParentFolder once it has returned or thrown:
\* /upload creates the file (index.js 335-342, part_000 106-125) or answers
\* 500 from its catch (index.js 356-360, part_000 143-150); /debug/parent
\* answers 200 or 400 (part_000 195-197).
Resolved(r, result) ==
    LET q == [r EXCEPT !.resolved = result]
    IN IF r.kind = "upload"
       THEN IF result.next = "throw" THEN Respond(q, 500, result.err)
            ELSE IssueCreate(q, result.id)
       ELSE IF result.next = "throw" THEN Respond(q, 400, result.err)
            ELSE [q EXCEPT !.pc = "done", !.resp = Resp(200, "", result.id, "", NoLink)]

\* The first files.get of resolveParentFolder answers.
ResolveMetaReturn ==
    /\ req.pc = "resolve_meta"
    /\ LET step == AfterMeta(variant, drive[req.input], req.input)
       IN IF step.next = "fetch"
          THEN /\ req' = Issue([req EXCEPT !.target = step.id], "resolve_target",
                               Call("files.get", step.id, 0, "", "", "unset"))
               /\ UNCHANGED history
          ELSE /\ req' = Resolved(req, step)
               /\ history' = Remember(history, req.input, step)
    /\ UNCHANGED <<variant, folderId, drive, credentials, cb, orphans>>

\* The files.get of the shortcut target answers.
ResolveTargetReturn ==
    /\ req.pc = "resolve_target"
    /\ LET step == AfterTarget(variant, drive[req.target], req.target)
       IN /\ req' = Resolved(req, step)
          /\ history' = Remember(history, req.input, step)
    /\ UNCHANGED <<variant, folderId, drive, credentials, cb, orphans>>

hasLinkFetch(v) == v \in {"oauth", "sa_file"}

\* files.create answers: index.js 78-88, index.js 344-349 and 356-360,
\* part_000 127-132 and 143-150, part_001 51-72.  `removed` and `removedAgain`
\* are the outcomes of the unlinkSync calls of part_001 (52 and 65).
CreateReturn(ok, link, removed, removedAgain) ==
    /\ req.pc = "create"
    /\ usesTempFile(variant) \/ (removed /\ removedAgain)
    /\ ok \/ link = NoLink
    /\ LET r == [req EXCEPT !.created = [ok |-> ok, id |-> IF ok THEN NewFileId ELSE 0,
                                         link |-> link]]
           answer == [r EXCEPT !.pc = "done",
                               !.resp = Resp(200, "", NewFileId, FileName(r),
                                             ViewLink(link, NewFileId))]
       IN req' =
            IF ~ok
            THEN Respond(Unlinked(r, removed), 500, "provider: create failed")
            ELSE IF hasLinkFetch(variant)
            THEN Issue(r, "link_meta", Call("files.get", NewFileId, 0, "", "", "unset"))
            ELSE IF ~usesTempFile(variant) THEN answer
            ELSE IF removed THEN Unlinked(answer, TRUE)
            ELSE Respond(Unlinked(Unlinked(r, FALSE), removedAgain), 500, "unlink failed")
    /\ UNCHANGED <<variant, folderId, drive, credentials, cb, history, orphans>>

\* The files.get after the create answers: index.js 351-360, part_000 134-150
LinkMetaReturn(ok, link) ==
    /\ req.pc = "link_meta"
    /\ ok \/ link = NoLink
    /\ LET r == [req EXCEPT !.fetched = [ok |-> ok, id |-> IF ok THEN req.created.id ELSE 0,
                                         link |-> link]]
       IN req' = IF ~ok THEN Respond(r, 500, "provider: get failed")
                 ELSE [r EXCEPT !.pc = "done",
                                !.resp = Resp(200, "", r.fetched.id, FileName(r),
                                              ViewLink(link, r.fetched.id))]
    /\ UNCHANGED <<variant, folderId, drive, credentials, cb, history, orphans>>

\* sendNotificationEmail: false is passed by index.js 376 and part_000 174 only
Notify(v) == IF v \in {"oauth", "sa_file"} THEN "false" ELSE "unset"

Emails == {"reader@example.com"}

\* POST /grant-access up to its provider call:
\* index.js 92-110, index.js 365-378, part_000 155-176, part_001 76-94
GrantStart(fileId, email) ==
    /\ Accept
    /\ LET r == [IdleReq EXCEPT !.kind = "grant", !.fileId = fileId, !.email = email,
                                !.authed = isAuthorized(variant, credentials)]
       IN req' =
            IF ~ensureAuthed(variant, credentials)
            THEN Respond(r, 401, "Not authorized. Visit /auth to grant access.")
            ELSE IF GrantInvalid(fileId, email)
            THEN Respond(r, 400, "fileId and email are required")
            ELSE Issue(r, "grant",
                       Call("permissions.create", fileId, 0, "", email, Notify(variant)))
    /\ UNCHANGED <<variant, folderId, drive, credentials, cb, history>>

\* permissions.create answers: index.js 112-118, 379-385, part_000 178-188,
\* part_001 96-100
GrantReturn(ok) ==
    /\ req.pc = "grant"
    /\ req' = IF ok THEN Respond(req, 200, "")
              ELSE Respond(req, 500, "provider: permission failed")
    /\ UNCHANGED <<variant, folderId, drive, credentials, cb, history, orphans>>

\* ------------------------------------------------------------------ consent flow

setCredentials_KeepRefresh(creds, tokens) ==
    IF tokens.refresh_token = 0
    THEN [tokens EXCEPT !.refresh_token = creds.refresh_token]
    ELSE tokens

\* oauth2Client.setCredentials(tokens): index.js 281
setCredentials(creds, tokens) == tokens

ConfirmationText == "Authorization successful!"
OAuthErrorText == "OAuth error. Check logs."

\* GET /auth: the redirect to the consent URL, index.js 264-275
Auth ==
    /\ variant = "oauth"
    /\ Accept
    /\ req' = [IdleReq EXCEPT !.kind = "auth", !.pc = "done",
                              !.authed = isAuthorized(variant, credentials),
                              !.resp = Resp(302, "", 0, "", NoLink)]
    /\ UNCHANGED <<variant, folderId, drive, credentials, cb, history>>

\* GET /auth/status: {authorized: hasRefreshToken()}, index.js 295-297
AuthStatus ==
    /\ variant = "oauth"
    /\ Accept
    /\ req' = [IdleReq EXCEPT !.kind = "auth_status", !.pc = "done",
                              !.authed = isAuthorized(variant, credentials),
                              !.authorized = hasRefreshToken(credentials),
                              !.resp = Resp(200, "", 0, "", NoLink)]
    /\ UNCHANGED <<variant, folderId, drive, credentials, cb, history>>

\* GET /oauth2callback up to getToken: index.js 277-280
CallbackStart ==
    /\ variant = "oauth"
    /\ cb.pc \in {"idle", "done"}
    /\ cb' = [IdleCb EXCEPT !.pc = "exchange", !.before = credentials]
    /\ UNCHANGED <<variant, folderId, drive, credentials, req, history, orphans>>

\* getToken returns the token pair: index.js 280-288
CallbackTokens(tokens) ==
    /\ cb.pc = "exchange"
    /\ credentials' = setCredentials(credentials, tokens)
    /\ cb' = [cb EXCEPT !.pc = "done", !.ok = TRUE, !.tokens = tokens,
                        !.before = NoCreds,
                        !.status = 200, !.body = ConfirmationText]
    /\ UNCHANGED <<variant, folderId, drive, req, history, orphans>>

\* getToken throws the provider's error: index.js 289-292
CallbackError(err) ==
    /\ cb.pc = "exchange"
    /\ cb' = [cb EXCEPT !.pc = "done", !.ok = FALSE, !.err = err,
                        !.status = 500, !.body = OAuthErrorText]
    /\ UNCHANGED <<variant, folderId, drive, credentials, req, history, orphans>>

\* ------------------------------------------------------------------ specification

Links == {NoLink, WebViewLink(NewFileId)}
Names == {"", "greeting.txt"}

Next ==
    \/ \E file \in BOOLEAN, name \in Names : UploadStart(file, name)
    \/ \E id \in Ids : DebugParentStart(id)
    \/ ResolveMetaReturn
    \/ ResolveTargetReturn
    \/ \E ok \in BOOLEAN, link \in Links, removed \in BOOLEAN, again \in BOOLEAN :
           CreateReturn(ok, link, removed, again)
    \/ \E ok \in BOOLEAN, link \in Links : LinkMetaReturn(ok, link)
    \/ \E fileId \in {0} \cup Ids, email \in {""} \cup Emails : GrantStart(fileId, email)
    \/ \E ok \in BOOLEAN : GrantReturn(ok)
    \/ Auth
    \/ AuthStatus
    \/ CallbackStart
    \/ \E tokens \in TokenPairs : CallbackTokens(tokens)
    \/ \E err \in ProviderErrors : CallbackError(err)

Spec == Init /\ [][Next]_vars

\* ------------------------------------------------------------------ properties

\* the metadata fetches of resolveParentFolder, and the other calls of a request
ResolveCalls(r) ==
    SelectSeq(r.calls, LAMBDA c : c.op = "files.get" /\ c.fileId # NewFileId)
LinkCalls(r) ==
    SelectSeq(r.calls, LAMBDA c : c.op = "files.get" /\ c.fileId = NewFileId)
CreateCalls(r) == SelectSeq(r.calls, LAMBDA c : c.op = "files.create")

HasResolved(r) == r.resolved # NoResult

\* C1: a /upload request that arrives while isAuthorized() is false is
\* answered 401 and issues no provider call, whatever its body holds.
C1_UnauthorizedUploadRejected ==
    (req.kind = "upload" /\ ~req.authed)
        => (req.pc = "done" /\ req.resp.status = 401 /\ req.calls = <<>>)

C1_Witness ==
    /\ req.kind = "upload" /\ ~req.authed /\ req.file
    /\ req.pc = "done" /\ req.resp.status = 401

\* C2: no provider call of a request is issued while the credential store
\* holds no refresh_token, under every interleaving with /oauth2callback.
C2_NoCallWithoutRefreshToken == ~req.bare

\* the input's metadata names a shortcut target that exists and is no folder
ShortcutToNonFolder(id) ==
    /\ drive[id].targetId # 0
    /\ drive[drive[id].targetId].mimeType \notin {"absent", FolderMime}

\* C3: when the input is a shortcut to a non-directory, resolveParentFolder
\* fails with the InvalidTarget kind and the /upload creates no file.
C3_ShortcutToNonFolderIsInvalidTarget ==
    (req.kind = "upload" /\ HasResolved(req) /\ ShortcutToNonFolder(req.input))
        => /\ req.resolved.next = "throw"
           /\ ErrorKind(req.resolved.err) = "InvalidTarget"
           /\ CreateCalls(req) = <<>>

\* C4: one resolution fetches at most the input and its direct shortcut
\* target (one fetch per step, so it ends after two), and fails when the
\* direct target is itself a shortcut, a self-reference included.
C4_OneLevelOfIndirection ==
    req.kind \in {"upload", "debug"} =>
        /\ Len(ResolveCalls(req)) <= 2
        /\ req.pc = "resolve_meta" => Len(ResolveCalls(req)) = 1
        /\ req.pc = "resolve_target" => Len(ResolveCalls(req)) = 2
        /\ \A i \in 1..Len(ResolveCalls(req)) :
               ResolveCalls(req)[i].fileId = IF i = 1 THEN req.input
                                             ELSE drive[req.input].targetId
        /\ ( /\ HasResolved(req)
             /\ drive[req.input].targetId # 0
             /\ drive[drive[req.input].targetId].mimeType = ShortcutMime )
               => req.resolved.next = "throw"

C4_Witness ==
    /\ HasResolved(req)
    /\ drive[req.input].targetId # 0
    /\ drive[drive[req.input].targetId].mimeType = ShortcutMime
    /\ req.resolved.next = "throw"
    /\ Len(ResolveCalls(req)) = 2

\* C5: an identifier that is a directory and has no shortcut target resolves
\* to itself with exactly one metadata fetch.
C5_PlainFolderResolvesToItself ==
    (HasResolved(req) /\ drive[req.input] = [mimeType |-> FolderMime, targetId |-> 0])
        => (req.resolved = Return(req.input) /\ Len(ResolveCalls(req)) = 1)

C5_Witness ==
    /\ HasResolved(req)
    /\ drive[req.input] = [mimeType |-> FolderMime, targetId |-> 0]
    /\ req.resolved = Return(req.input)

\* C6: with the metadata unchanged, all resolutions of one identifier give
\* the same result, and an id that a resolution returned resolves to itself.
C6_ResolutionIdempotent ==
    \A id \in Ids :
        /\ Len(history[id]) = 2 => history[id][1] = history[id][2]
        /\ (history[id] # <<>> /\ history[id][1].next = "return")
              => \A k \in 1..Len(history[history[id][1].id]) :
                     history[history[id][1].id][k] = Return(history[id][1].id)

C6_Witness ==
    \E id \in Ids :
        /\ Len(history[id]) = 2
        /\ history[id][1].next = "return"
        /\ history[id][1].id # id
        /\ history[history[id][1].id] # <<>>

MissingGrantField(r) == r.kind = "grant" /\ (r.fileId = 0 \/ r.email = "")

\* C7 as stated: a /grant-access request without fileId or without email is
\* answered 400 and issues no provider call, in every credential state.
C7_MissingFieldAlways400 ==
    MissingGrantField(req)
        => (req.pc = "done" /\ req.resp.status = 400 /\ req.calls = <<>>)

\* C7 as amended: such a request issues no provider call and is answered
\* 400, except that the OAuth variant answers 401 when the credential store
\* holds no refresh_token (its authorization check comes first).
C7_MissingFieldRejected ==
    MissingGrantField(req)
        => /\ req.pc = "done"
           /\ req.resp.status = IF req.authed THEN 400 ELSE 401
           /\ req.calls = <<>>

C7_Witness ==
    /\ req.kind = "grant" /\ req.fileId # 0 /\ req.email = ""
    /\ req.pc = "done" /\ req.resp.status = 400

UploadSucceeded(r) == r.kind = "upload" /\ r.pc = "done" /\ r.resp.status = 200

\* C8 as stated: a successful /upload answers the created file's id and a
\* non-empty link; when the create response has no link the handler makes
\* one follow-up metadata fetch, and when the link is still absent it
\* answers the URL built from the id.
C8_FollowUpFetchWhenLinkOmitted ==
    UploadSucceeded(req)
        => /\ req.resp.id = req.created.id
           /\ req.resp.link # NoLink
           /\ req.created.link = NoLink => Len(LinkCalls(req)) = 1
           /\ (req.created.link = NoLink /\ req.fetched.link = NoLink)
                 => req.resp.link = BuildViewUrl(req.created.id)

\* C8 as amended: a successful /upload answers the created file's id and a
\* non-empty link.  The OAuth and key-file variants make exactly one
\* follow-up metadata fetch after every create and answer its link, or the
\* URL built from the id when it has none; the other variants make no
\* follow-up fetch and answer the create response's link, or the built URL.
C8_LinkNeverEmpty ==
    UploadSucceeded(req)
        => /\ req.created.ok /\ req.resp.id = req.created.id
           /\ req.resp.link # NoLink
           /\ Len(CreateCalls(req)) = 1
           /\ IF hasLinkFetch(variant)
              THEN /\ Len(LinkCalls(req)) = 1
                   /\ req.calls[Len(req.calls)].op = "files.get"
                   /\ req.resp.link = IF req.fetched.link # NoLink THEN req.fetched.link
                                      ELSE BuildViewUrl(req.created.id)
              ELSE /\ Len(LinkCalls(req)) = 0
                   /\ req.resp.link = IF req.created.link # NoLink THEN req.created.link
                                      ELSE BuildViewUrl(req.created.id)

C8_Witness ==
    /\ UploadSucceeded(req)
    /\ req.created.link = NoLink /\ req.fetched.ok /\ req.fetched.link = NoLink
    /\ req.resp.link = BuildViewUrl(req.created.id)

\* C9 as stated: a /upload issues files.create at most once, only after the
\* resolution of the configured identifier has returned, with the resolved
\* id as parent; when resolution fails it issues none.
C9_CreateOnlyAfterResolution ==
    req.kind = "upload"
        => /\ Len(CreateCalls(req)) <= 1
           /\ CreateCalls(req) # <<>>
                 => /\ req.resolved.next = "return"
                    /\ CreateCalls(req)[1].parent = req.resolved.id
           /\ req.resolved.next = "throw" => CreateCalls(req) = <<>>

\* C9 as amended: a /upload issues files.create at most once.  In the
\* variants with a folder resolver (OAuth, key file) it does so only after
\* the resolution of the configured identifier has returned, with the
\* resolved id as parent, and not at all when resolution fails; the other
\* variants resolve nothing and create with the configured identifier
\* itself as parent.
C9_CreateParent ==
    req.kind = "upload"
        => /\ Len(CreateCalls(req)) <= 1
           /\ req.resolved.next = "throw" => CreateCalls(req) = <<>>
           /\ CreateCalls(req) # <<>>
                 => IF hasResolver(variant)
                    THEN /\ req.resolved.next = "return"
                         /\ req.input = folderId
                         /\ req.calls[Len(ResolveCalls(req)) + 1].op = "files.create"
                         /\ CreateCalls(req)[1].parent = req.resolved.id
                    ELSE /\ ~HasResolved(req) /\ ResolveCalls(req) = <<>>
                         /\ CreateCalls(req)[1].parent = folderId

C9_Witness ==
    /\ req.kind = "upload" /\ CreateCalls(req) # <<>>
    /\ req.resolved.next = "return" /\ req.resolved.id # folderId
    /\ CreateCalls(req)[1].parent = req.resolved.id

\* C10 as stated: a successful exchange replaces the credential store by the
\* returned token pair and sends a confirmation; a failed one leaves the
\* store as it was and surfaces the provider's error in a 500 response.
C10_ProviderErrorSurfaced ==
    cb.pc = "done"
        => IF cb.ok
           THEN credentials = cb.tokens /\ cb.status = 200 /\ cb.body = ConfirmationText
           ELSE credentials = cb.before /\ cb.status = 500 /\ cb.body = cb.err

\* C10 as amended: a successful exchange replaces the credential store by
\* the returned token pair and sends a confirmation; a failed one leaves the
\* store as it was and is answered 500 with a fixed text ("OAuth error.
\* Check logs."): the provider's error goes to the log, not to the response.
C10_CallbackOutcome ==
    cb.pc = "done"
        => IF cb.ok
           THEN credentials = cb.tokens /\ cb.status = 200 /\ cb.body = ConfirmationText
           ELSE credentials = cb.before /\ cb.status = 500 /\ cb.body = OAuthErrorText

C10_Witness ==
    /\ cb.pc = "done" /\ cb.ok
    /\ cb.tokens.refresh_token = 0 /\ credentials = cb.tokens

\* C11: in the temporary-file variant, once /upload has answered, the
\* temporary file is gone, on the success path and on the failure paths on
\* which the provider's create fails or a removal fails once.
C11_TempFileRemoved ==
    (req.kind = "upload" /\ req.pc = "done" /\ req.unlinkFails <= 1)
        => ~req.tmp

PermissionCalls(r) == SelectSeq(r.calls, LAMBDA c : c.op = "permissions.create")

\* permissions.create mails the recipient of a user grant unless
\* sendNotificationEmail: false is passed (the provider's default).
SendsNotification(c) == c.notify # "false"

\* C12: every permission request of /grant-access is a reader grant for the
\* request's fileId and email and causes no notification (no request can
\* ask for one: the handlers read fileId and email only).
C12_ReaderGrantWithoutNotification ==
    \A i \in 1..Len(PermissionCalls(req)) :
        LET c == PermissionCalls(req)[i]
        IN /\ req.kind = "grant"
           /\ c.role = "reader" /\ c.fileId = req.fileId /\ c.email = req.email
           /\ ~SendsNotification(c)

ResolutionFailed(r) == HasResolved(r) /\ r.resolved.next = "throw"

\* C13 as stated: a /upload whose folder resolution fails is answered 400 or
\* 404 when the identifier cannot be fetched and 400 when the resolved
\* object is no directory; 500 is kept for downstream provider failures.
C13_ResolutionFailureIsClientError ==
    (req.kind = "upload" /\ req.pc = "done" /\ ResolutionFailed(req))
        => req.resp.status \in (IF ErrorKind(req.resolved.err) = "InvalidTarget"
                                THEN {400} ELSE {400, 404})

\* C13 as amended: a /upload whose folder resolution fails is answered 500
\* with the resolver's message, whatever the failure kind, like a downstream
\* provider failure; only /debug/parent/:id answers a resolution failure
\* with 400.
C13_ResolutionFailureStatus ==
    ResolutionFailed(req)
        => /\ req.pc = "done"
           /\ req.resp.status = IF req.kind = "upload" THEN 500 ELSE 400
           /\ req.resp.error = req.resolved.err

C13_Witness ==
    /\ req.kind = "upload" /\ req.pc = "done" /\ ResolutionFailed(req)
    /\ ErrorKind(req.resolved.err) = "InvalidTarget"
    /\ req.resp.status = 500

\* C14: once the credential store holds a refresh_token it holds one in
\* every later state: no step of any handler takes the refresh_token away.
C14_AuthorizationMonotonic ==
    [][hasRefreshToken(credentials) => hasRefreshToken(credentials')]_vars

====
